---- MODULE Spec2Model ----
(***************************************************************************)
(* Marketplace module of the wallet-point backend: product catalog, cart,  *)
(* purchase / checkout, transaction ledger.                                *)
(*                                                                         *)
(* Layers: handler (src/internal/marketplace/handler.go) -> service ->     *)
(* repository (src/internal/marketplace/repository.go, src/unnamed/        *)
(* part_001) -> database.  The service layer, the request/row types and    *)
(* the wallet module are not part of the available sources; their          *)
(* definitions below follow spec.md (sections 3, 4.2, 4.3, 7).  The        *)
(* service reaches the database only through the repository (spec.md       *)
(* section 2).                                                             *)
(***************************************************************************)
EXTENDS Integers, Sequences, FiniteSets, TLC

\* ---------------------------------------------------------------- bounds
NumUsers == 2
NumWorkers == 2
MaxProducts == 3
MaxQty == 2
MaxStock == 2
MaxPrice == 2
MaxOps == 2
InitBalance == 3

Users == 1..NumUsers
Workers == 1..NumWorkers
QtyInputs == (-1)..MaxQty
StockInputs == (-1)..MaxStock
PriceInputs == 1..MaxPrice
Statuses == {"active", "inactive"}
NilTx == 0
NoRow == [id |-> 0, user_id |-> 0, product_id |-> 0, quantity |-> 0]

VARIABLES
  db,        \* committed database: products, wallets, ledger, cart_items
  txs,       \* per request: the open transaction's uncommitted writes
  pc,        \* per request worker: position in its handler
  req,       \* per request worker: the bound request
  loc,       \* per request worker: values the service read so far
  last,      \* the response written most recently: handler, caller, status, body
  ops        \* requests started so far

vars == <<db, txs, pc, req, loc, last, ops>>

\* ------------------------------------------------------------ transactions
\* gorm transaction handle: writes stay private until Commit, are dropped by
\* Rollback; a written row is locked for every other session until then.
EmptyTx ==
  [stock |-> <<>>, wallet |-> <<>>, ledger |-> <<>>, cartDel |-> {}, debits |-> 0]

Store == [db |-> db, txs |-> txs]

StockLocked(S, t, p) == \E o \in Workers \ {t} : p \in DOMAIN S.txs[o].stock
WalletLocked(S, t, u) == \E o \in Workers \ {t} : u \in DOMAIN S.txs[o].wallet
CartRowLocked(S, t, id) == \E o \in Workers \ {t} : id \in S.txs[o].cartDel

\* current value of a row as the statement run on handle tx sees it
CurStock(S, tx, p) ==
  IF tx # NilTx /\ p \in DOMAIN S.txs[tx].stock
  THEN S.txs[tx].stock[p]
  ELSE S.db.products[p].stock

CurBalance(S, tx, u) ==
  IF tx # NilTx /\ u \in DOMAIN S.txs[tx].wallet
  THEN S.txs[tx].wallet[u]
  ELSE S.db.wallet[u]

Commit(S, t) ==
  LET w == S.txs[t]
      d == S.db
  IN [db |-> [d EXCEPT
                !.products = [p \in DOMAIN d.products |->
                                IF p \in DOMAIN w.stock
                                THEN [d.products[p] EXCEPT !.stock = w.stock[p]]
                                ELSE d.products[p]],
                !.wallet = [u \in Users |->
                              IF u \in DOMAIN w.wallet THEN w.wallet[u] ELSE d.wallet[u]],
                !.ledger = d.ledger \o w.ledger,
                !.cart = {r \in d.cart : r.id \notin w.cartDel}],
      txs |-> [S.txs EXCEPT ![t] = EmptyTx]]

Rollback(S, t) == [S EXCEPT !.txs[t] = EmptyTx]

\* ------------------------------------------------------------- repository
\* GetAll: status filter, newest first (ids grow with creation time), page.
RECURSIVE Descending(_)
Descending(ids) ==
  IF ids = {} THEN <<>>
  ELSE LET m == CHOOSE x \in ids : \A y \in ids : y <= x
       IN <<m>> \o Descending(ids \ {m})

GetAll(d, status, page, limit) ==
  LET hit == {p \in DOMAIN d.products : status = "" \/ d.products[p].status = status}
      all == Descending(hit)
      offset == (page - 1) * limit
  IN [items |-> SubSeq(all, offset + 1, IF offset + limit < Len(all) THEN offset + limit ELSE Len(all)),
      total |-> Cardinality(hit)]

\* FindByID: plain SELECT on r.db, no transaction handle, no lock.
FindByID(d, productID) ==
  IF productID \in DOMAIN d.products
  THEN [err |-> "", id |-> productID, product |-> d.products[productID]]
  ELSE [err |-> "product not found", id |-> productID,
        product |-> [price |-> 0, stock |-> 0, status |-> ""]]

Create(d, product) ==
  LET id == Cardinality(DOMAIN d.products) + 1
  IN [d EXCEPT !.products = (id :> product) @@ @]

\* Updates(map): only the columns named in the map are written.
Update(d, productID, updates) ==
  IF productID \notin DOMAIN d.products THEN d
  ELSE [d EXCEPT !.products[productID] =
          [f \in DOMAIN @ |-> IF f \in DOMAIN updates THEN updates[f] ELSE @[f]]]

\* slip: the row is removed instead of flagged
Delete_Hard(d, productID) ==
  [d EXCEPT !.products = [p \in (DOMAIN @) \ {productID} |-> @[p]]]

Delete(d, productID) ==
  IF productID \notin DOMAIN d.products THEN d
  ELSE [d EXCEPT !.products[productID].status = "inactive"]

\* slip: the statement runs on r.db although a transaction handle was passed
UpdateStock_OnDB(S, tx, productID, delta) ==
  IF productID \notin DOMAIN S.db.products THEN S
  ELSE [S EXCEPT !.db.products[productID].stock = @ + delta]

\* slip: "stock - ?" with the (negative) delta
UpdateStock_SignSlip(S, tx, productID, delta) ==
  IF productID \notin DOMAIN S.db.products THEN S
  ELSE IF tx = NilTx
  THEN [S EXCEPT !.db.products[productID].stock = @ - delta]
  ELSE [S EXCEPT !.txs[tx].stock =
          (productID :> (CurStock(S, tx, productID) - delta)) @@ @]

\* UPDATE products SET stock = stock + delta WHERE id = ?  (no floor)
UpdateStock(S, tx, productID, delta) ==
  IF productID \notin DOMAIN S.db.products THEN S
  ELSE IF tx = NilTx
  THEN [S EXCEPT !.db.products[productID].stock = @ + delta]
  ELSE [S EXCEPT !.txs[tx].stock =
          (productID :> (CurStock(S, tx, productID) + delta)) @@ @]

\* slip: the row is inserted on r.db although a transaction handle was passed
CreateTransaction_OnDB(S, tx, transaction) ==
  [S EXCEPT !.db.ledger = Append(@, transaction)]

CreateTransaction(S, tx, transaction) ==
  IF tx = NilTx
  THEN [S EXCEPT !.db.ledger = Append(@, transaction)]
  ELSE [S EXCEPT !.txs[tx].ledger = Append(@, transaction)]

\* AddToCart, first statement: SELECT the (user, product) row.
AddToCartFind(d, item) ==
  LET hit == {r \in d.cart : r.user_id = item.user_id /\ r.product_id = item.product_id}
  IN IF hit = {} THEN NoRow ELSE CHOOSE r \in hit : \A o \in hit : r.id <= o.id

\* slip: the UPDATE writes item.Quantity instead of the sum
AddToCartWrite_Overwrite(d, item, existing) ==
  IF existing # NoRow
  THEN [err |-> "",
        db |-> [d EXCEPT !.cart =
                  {IF r.id = existing.id
                   THEN [r EXCEPT !.quantity = item.quantity]
                   ELSE r : r \in @}]]
  ELSE [err |-> "",
        db |-> [d EXCEPT !.cart = @ \cup {[item EXCEPT !.id = d.nextId]},
                         !.nextId = @ + 1]]

\* AddToCart, second statement: UPDATE the row found (by its id) to
\* existing.Quantity + item.Quantity, or INSERT the item.
AddToCartWrite(d, item, existing) ==
  IF existing # NoRow
  THEN [err |-> "",
        db |-> [d EXCEPT !.cart =
                  {IF r.id = existing.id
                   THEN [r EXCEPT !.quantity = existing.quantity + item.quantity]
                   ELSE r : r \in @}]]
  ELSE IF \E r \in d.cart : r.user_id = item.user_id /\ r.product_id = item.product_id
  THEN [err |-> "duplicate entry", db |-> d]
  ELSE [err |-> "",
        db |-> [d EXCEPT !.cart = @ \cup {[item EXCEPT !.id = d.nextId]},
                         !.nextId = @ + 1]]

GetCart(d, userID) == {r \in d.cart : r.user_id = userID}

\* slip: WHERE id = ? without the user_id condition
UpdateCartItem_AnyUser(d, userID, itemID, quantity) ==
  [d EXCEPT !.cart = {IF r.id = itemID
                      THEN [r EXCEPT !.quantity = quantity]
                      ELSE r : r \in @}]

UpdateCartItem(d, userID, itemID, quantity) ==
  [d EXCEPT !.cart = {IF r.user_id = userID /\ r.id = itemID
                      THEN [r EXCEPT !.quantity = quantity]
                      ELSE r : r \in @}]

RemoveFromCart(d, userID, itemID) ==
  [d EXCEPT !.cart = {r \in @ : ~(r.user_id = userID /\ r.id = itemID)}]

ClearCart(S, tx, userID) ==
  IF tx = NilTx
  THEN [S EXCEPT !.db.cart = {r \in @ : r.user_id # userID}]
  ELSE [S EXCEPT !.txs[tx].cartDel =
          @ \cup {r.id : r \in {x \in S.db.cart : x.user_id = userID}}]


\* ------------------------------------------------------------------ wallet
\* Wallet module (external collaborator): debit inside the caller's
\* transaction; the wallet row is locked, the balance must cover the amount.
Debit(S, tx, userID, amount) ==
  IF CurBalance(S, tx, userID) < amount
  THEN [err |-> "insufficient balance", S |-> S]
  ELSE [err |-> "",
        S |-> [S EXCEPT !.txs[tx].wallet =
                 (userID :> (CurBalance(S, tx, userID) - amount)) @@ @,
               !.txs[tx].debits = @ + 1]]

\* ----------------------------------------------------------------- service
NoReq ==
  [op |-> "none", valid |-> TRUE, user_id |-> 0, product_id |-> 0, quantity |-> 0,
   item_id |-> 0, fields |-> {}, price |-> 0, stock |-> 0, status |-> ""]

NoLoc == [lines |-> <<>>, i |-> 0, total |-> 0, existing |-> NoRow]

RECURSIVE SumAmount(_)
SumAmount(rows) ==
  IF rows = <<>> THEN 0 ELSE Head(rows).amount + SumAmount(Tail(rows))

RECURSIVE CartLines(_, _)
CartLines(d, rows) ==
  IF rows = {} THEN <<>>
  ELSE LET r == CHOOSE x \in rows : \A y \in rows : x.id <= y.id
           f == FindByID(d, r.product_id)
       IN <<[product_id |-> r.product_id, quantity |-> r.quantity,
             price |-> f.product.price, stock |-> f.product.stock]>>
          \o CartLines(d, rows \ {r})

\* request payload rules (spec.md 3, 4.1, 4.2): quantities are positive,
\* price and stock of a product are not negative
ValidQuantity_NonNegative(q) == q >= 0
ValidQuantity(q) == q >= 1
ValidProductFields(r) ==
  /\ ("stock" \in r.fields => r.stock >= 0)
  /\ ("price" \in r.fields => r.price >= 0)
  /\ ("status" \in r.fields => r.status \in Statuses)

\* steps 1-3 of the purchase contract on the lines read: every quantity is
\* covered by the stock read; the total is the sum of price * quantity
LinesError(lines) ==
  IF \E k \in 1..Len(lines) : lines[k].quantity > lines[k].stock
  THEN "insufficient stock" ELSE ""

RECURSIVE LinesTotal(_)
LinesTotal(lines) ==
  IF lines = <<>> THEN 0
  ELSE Head(lines).price * Head(lines).quantity + LinesTotal(Tail(lines))

LedgerRow(userID, line) ==
  [wallet_id |-> userID, product_id |-> line.product_id,
   quantity |-> line.quantity, amount |-> line.price * line.quantity]

\* ---------------------------------------------------------------- handlers
StatusOK == 200
StatusCreated == 201
StatusBadRequest == 400
StatusNotFound == 404
StatusInternalServerError == 500

NoBody == [cart |-> {}, items |-> <<>>, total |-> 0, product |-> 0]

\* a request arrives at an idle worker; seq: requests are handled one at a time
Begin(t, seq) ==
  /\ pc[t] = "idle"
  /\ ops < MaxOps
  /\ seq => \A o \in Workers : pc[o] = "idle"
  /\ ops' = ops + 1

\* the parameters of one h.auditService.LogActivity call (details, IP address
\* and user agent left out); logged: whether the audit service stored it
LogActivity(userID, action, entity, entityID, logged) ==
  [user_id |-> userID, action |-> action, entity |-> entity,
   entity_id |-> entityID, logged |-> logged]

\* the handler writes its response, emits the audit records `emitted` and
\* returns
Return(t, r, code, body, emitted) ==
  /\ pc' = [pc EXCEPT ![t] = "idle"]
  /\ req' = [req EXCEPT ![t] = NoReq]
  /\ loc' = [loc EXCEPT ![t] = NoLoc]
  /\ last' = [op |-> r.op, user_id |-> r.user_id, item_id |-> r.item_id,
               code |-> code, at |-> pc[t], body |-> body, audit |-> emitted]

\* the handler writes its response and returns
Respond(t, r, code, body) == Return(t, r, code, body, <<>>)

\* slip: a failed audit call turns the answer into a 500
RespondLogged_AuditDecides(t, r, code, body, a) ==
  Return(t, r, IF a.logged THEN code ELSE StatusInternalServerError, body, <<a>>)

\* the handler writes its success response, then calls LogActivity, whose
\* outcome it does not look at, and returns
RespondLogged(t, r, code, body, a) == Return(t, r, code, body, <<a>>)

\* the handler's service call goes on at step `at`
Continue(t, r, at, l) ==
  /\ pc' = [pc EXCEPT ![t] = at]
  /\ req' = [req EXCEPT ![t] = r]
  /\ loc' = [loc EXCEPT ![t] = l]
  /\ UNCHANGED last

\* Purchase: bind, then service.PurchaseProduct up to its first write
HandlePurchase(t, u, p, q, seq) ==
    LET r == [NoReq EXCEPT !.op = "purchase", !.user_id = u, !.product_id = p,
                           !.quantity = q, !.valid = ValidQuantity(q)]
        f == FindByID(db, p)
        lines == <<[product_id |-> p, quantity |-> q,
                    price |-> f.product.price, stock |-> f.product.stock]>>
    IN /\ Begin(t, seq)
       /\ UNCHANGED <<db, txs>>
       /\ IF ~r.valid \/ f.err # "" \/ LinesError(lines) # ""
          THEN Respond(t, r, StatusBadRequest, NoBody)
          ELSE Continue(t, r, "debit", [NoLoc EXCEPT !.lines = lines, !.i = 1,
                                                     !.total = LinesTotal(lines)])

\* Checkout: bind, then service.Checkout up to its first write; the lines are
\* the caller's cart rows with their products
HandleCheckout(t, u, ok, seq) ==
    LET r == [NoReq EXCEPT !.op = "checkout", !.user_id = u, !.valid = ok]
        lines == CartLines(db, GetCart(db, u))
    IN /\ Begin(t, seq)
       /\ UNCHANGED <<db, txs>>
       /\ IF ~r.valid \/ LinesError(lines) # ""
          THEN Respond(t, r, StatusBadRequest, NoBody)
          ELSE Continue(t, r, "debit", [NoLoc EXCEPT !.lines = lines, !.i = 1,
                                                     !.total = LinesTotal(lines)])

\* an error inside the transaction: rolled back, answered 400
TxAbort(t) ==
  /\ txs' = Rollback(Store, t).txs
  /\ Respond(t, req[t], StatusBadRequest, NoBody)
  /\ UNCHANGED <<db, ops>>

TxDebit(t) ==
  /\ pc[t] = "debit"
  /\ ~WalletLocked(Store, t, req[t].user_id)
  /\ LET r == Debit(Store, t, req[t].user_id, loc[t].total)
     IN IF r.err # ""
        THEN TxAbort(t)
        ELSE /\ txs' = r.S.txs
             /\ pc' = [pc EXCEPT ![t] = "stock"]
             /\ UNCHANGED <<db, req, loc, last, ops>>

\* after the last line of a loop the next phase starts
NextPhase(t, at) ==
  IF loc[t].i < Len(loc[t].lines)
  THEN /\ loc' = [loc EXCEPT ![t].i = @ + 1]
       /\ UNCHANGED pc
  ELSE /\ loc' = [loc EXCEPT ![t].i = 1]
       /\ pc' = [pc EXCEPT ![t] = at]

TxUpdateStock(t) ==
  /\ pc[t] = "stock"
  /\ IF loc[t].lines = <<>>
     THEN /\ pc' = [pc EXCEPT ![t] = "clear"]
          /\ UNCHANGED <<db, txs, loc>>
     ELSE LET line == loc[t].lines[loc[t].i]
              S == UpdateStock(Store, t, line.product_id, -line.quantity)
          IN /\ ~StockLocked(Store, t, line.product_id)
             /\ db' = S.db
             /\ txs' = S.txs
             /\ NextPhase(t, "ledger")
  /\ UNCHANGED <<req, last, ops>>

TxCreateTransaction(t) ==
  /\ pc[t] = "ledger"
  /\ LET line == loc[t].lines[loc[t].i]
         S == CreateTransaction(Store, t, LedgerRow(req[t].user_id, line))
     IN /\ db' = S.db
        /\ txs' = S.txs
        /\ NextPhase(t, IF req[t].op = "checkout" THEN "clear" ELSE "commit")
  /\ UNCHANGED <<req, last, ops>>

TxClearCart(t) ==
  /\ pc[t] = "clear"
  /\ LET S == ClearCart(Store, t, req[t].user_id)
     IN /\ \A r \in GetCart(db, req[t].user_id) : ~CartRowLocked(Store, t, r.id)
        /\ db' = S.db
        /\ txs' = S.txs
  /\ pc' = [pc EXCEPT ![t] = "commit"]
  /\ UNCHANGED <<req, loc, last, ops>>

\* the audit call of Purchase after its success response
PurchaseAudit(r, logged) ==
  LogActivity(r.user_id, "PURCHASE_PRODUCT", "PRODUCT", r.product_id, logged)

\* the audit call of Checkout after its success response
CheckoutAudit(r, logged) ==
  LogActivity(r.user_id, "CART_CHECKOUT", "WALLET", r.user_id, logged)

\* the commit, then the handler's success response and its audit call
TxCommit(t) ==
  /\ pc[t] = "commit"
  /\ LET S == Commit(Store, t)
     IN /\ db' = S.db
        /\ txs' = S.txs
  /\ \E logged \in BOOLEAN :
       RespondLogged(t, req[t], StatusOK, NoBody,
                     IF req[t].op = "purchase" THEN PurchaseAudit(req[t], logged)
                     ELSE CheckoutAudit(req[t], logged))
  /\ UNCHANGED ops

\* a storage error at any statement of the transaction
TxFail(t) ==
  /\ pc[t] \in {"debit", "stock", "ledger", "clear", "commit"}
  /\ TxAbort(t)

\* ------------------------------------------------------------------- cart
\* AddToCart: bind, service.AddToCart, repository AddToCart's SELECT
HandleAddToCart(t, u, p, q, seq) ==
    LET r == [NoReq EXCEPT !.op = "add", !.user_id = u, !.product_id = p,
                           !.quantity = q, !.valid = ValidQuantity(q)]
        item == [NoRow EXCEPT !.user_id = u, !.product_id = p, !.quantity = q]
    IN /\ Begin(t, seq)
       /\ UNCHANGED <<db, txs>>
       /\ IF ~r.valid \/ FindByID(db, p).err # ""
          THEN Respond(t, r, StatusBadRequest, NoBody)
          ELSE Continue(t, r, "add", [NoLoc EXCEPT !.existing = AddToCartFind(db, item)])

\* repository AddToCart's UPDATE or INSERT, then the response
AddToCartStep(t) ==
  /\ pc[t] = "add"
  /\ ~CartRowLocked(Store, t, loc[t].existing.id)
  /\ LET item == [NoRow EXCEPT !.user_id = req[t].user_id,
                               !.product_id = req[t].product_id,
                               !.quantity = req[t].quantity]
         w == AddToCartWrite(db, item, loc[t].existing)
     IN /\ db' = w.db
        /\ IF w.err # ""
           THEN Respond(t, req[t], StatusBadRequest, NoBody)
           ELSE Respond(t, req[t], StatusOK, NoBody)
  /\ UNCHANGED <<txs, ops>>

\* ids a request can name: every product (cart row) there is, and one unknown id
ProductIDs == DOMAIN db.products \cup {Cardinality(DOMAIN db.products) + 1}
CartIDs == {r.id : r \in db.cart} \cup {db.nextId}

HandleGetCart(t, u, seq) ==
    LET r == [NoReq EXCEPT !.op = "getcart", !.user_id = u]
        items == GetCart(db, u)
    IN /\ Begin(t, seq)
       /\ Respond(t, r, StatusOK,
                  [NoBody EXCEPT !.cart = items,
                                 !.total = LinesTotal(CartLines(db, items))])
       /\ UNCHANGED <<db, txs>>

HandleUpdateCartItem(t, u, id, q, seq) ==
    LET r == [NoReq EXCEPT !.op = "updatecart", !.user_id = u, !.item_id = id,
                           !.quantity = q, !.valid = ValidQuantity(q)]
    IN /\ Begin(t, seq)
       /\ ~CartRowLocked(Store, t, id)
       /\ IF ~r.valid
          THEN /\ Respond(t, r, StatusBadRequest, NoBody)
               /\ UNCHANGED db
          ELSE /\ Respond(t, r, StatusOK, NoBody)
               /\ db' = UpdateCartItem(db, u, id, q)
       /\ UNCHANGED txs

HandleRemoveFromCart(t, u, id, seq) ==
    LET r == [NoReq EXCEPT !.op = "removecart", !.user_id = u, !.item_id = id]
    IN /\ Begin(t, seq)
       /\ ~CartRowLocked(Store, t, id)
       /\ Respond(t, r, StatusOK, NoBody)
       /\ db' = RemoveFromCart(db, u, id)
       /\ UNCHANGED txs

\* ---------------------------------------------------------------- catalog
Roles == {"admin", "mahasiswa"}
Pages == 1..2
Limits == {2}

HandleGetAll(t, role, st, page, limit, seq) ==
    LET status == IF role = "mahasiswa" THEN "active" ELSE st
        r == [NoReq EXCEPT !.op = "getall", !.status = st, !.fields = {role},
                           !.item_id = page, !.quantity = limit]
        got == GetAll(db, status, page, limit)
    IN /\ Begin(t, seq)
       /\ Respond(t, r, StatusOK,
                  [NoBody EXCEPT !.items = got.items, !.total = got.total])
       /\ UNCHANGED <<db, txs>>

HandleGetByID(t, p, seq) ==
    LET r == [NoReq EXCEPT !.op = "getbyid", !.product_id = p]
        f == FindByID(db, p)
    IN /\ Begin(t, seq)
       /\ IF f.err # ""
          THEN Respond(t, r, StatusNotFound, NoBody)
          ELSE Respond(t, r, StatusOK, [NoBody EXCEPT !.product = f.id])
       /\ UNCHANGED <<db, txs>>

\* GetByID when the SELECT of FindByID fails with a storage error (any error
\* other than record-not-found): the handler answers every service error 404
HandleGetByIDStorageError(t, p, seq) ==
    LET r == [NoReq EXCEPT !.op = "getbyid", !.product_id = p]
    IN /\ Begin(t, seq)
       /\ Respond(t, r, StatusNotFound, NoBody)
       /\ UNCHANGED <<db, txs>>

HandleCreate(t, price, stock, seq) ==
    LET r == [NoReq EXCEPT !.op = "create", !.price = price, !.stock = stock,
                           !.status = "active",
                           !.fields = {"price", "stock", "status"}]
        d == Create(db, [price |-> price, stock |-> stock, status |-> "active"])
        id == Cardinality(DOMAIN db.products) + 1
    IN /\ Begin(t, seq)
       /\ Cardinality(DOMAIN db.products) < MaxProducts
       /\ IF ~ValidProductFields(r)
          THEN /\ Respond(t, [r EXCEPT !.valid = FALSE], StatusBadRequest, NoBody)
               /\ UNCHANGED db
          ELSE /\ \E logged \in BOOLEAN :
                    RespondLogged(t, r, StatusCreated, [NoBody EXCEPT !.product = id],
                                  LogActivity(r.user_id, "CREATE_PRODUCT", "PRODUCT",
                                              id, logged))
               /\ db' = d
       /\ UNCHANGED txs

UpdateInputs ==
  {[NoReq EXCEPT !.op = "update", !.fields = {"stock"}, !.stock = v] : v \in StockInputs}
  \cup {[NoReq EXCEPT !.op = "update", !.fields = {"status"}, !.status = s] : s \in Statuses}
  \cup {[NoReq EXCEPT !.op = "update", !.fields = {"price"}, !.price = v] : v \in PriceInputs}

HandleUpdate(t, p, u, seq) ==
    LET r == [u EXCEPT !.product_id = p]
        f == FindByID(db, p)
        d == Update(db, p, [c \in r.fields |-> r[c]])
    IN /\ Begin(t, seq)
       /\ ~StockLocked(Store, t, p)
       /\ IF ~ValidProductFields(r)
          THEN /\ Respond(t, [r EXCEPT !.valid = FALSE], StatusBadRequest, NoBody)
               /\ UNCHANGED db
          ELSE IF f.err # ""
          THEN /\ Respond(t, r, StatusNotFound, NoBody)
               /\ UNCHANGED db
          ELSE /\ \E logged \in BOOLEAN :
                    RespondLogged(t, r, StatusOK, [NoBody EXCEPT !.product = p],
                                  LogActivity(r.user_id, "UPDATE_PRODUCT", "PRODUCT",
                                              p, logged))
               /\ db' = d
       /\ UNCHANGED txs

HandleDelete(t, p, seq) ==
    LET r == [NoReq EXCEPT !.op = "delete", !.product_id = p]
        f == FindByID(db, p)
    IN /\ Begin(t, seq)
       /\ ~StockLocked(Store, t, p)
       /\ IF f.err # ""
          THEN /\ Respond(t, r, StatusNotFound, NoBody)
               /\ UNCHANGED db
          ELSE /\ \E logged \in BOOLEAN :
                    RespondLogged(t, r, StatusOK, NoBody,
                                  LogActivity(r.user_id, "DELETE_PRODUCT", "PRODUCT",
                                              p, logged))
               /\ db' = Delete(db, p)
       /\ UNCHANGED txs

\* ----------------------------------------------------------- specification
InitProducts ==
  (1 :> [price |-> 1, stock |-> MaxStock, status |-> "active"])
  @@ (2 :> [price |-> MaxPrice, stock |-> 1, status |-> "active"])

\* user 1 starts with both products in the cart, user 2 with an empty cart
InitCart ==
  {[id |-> 1, user_id |-> 1, product_id |-> 1, quantity |-> 1],
   [id |-> 2, user_id |-> 1, product_id |-> 2, quantity |-> 1]}

Init ==
  /\ db = [products |-> InitProducts,
           wallet |-> [u \in Users |-> InitBalance],
           ledger |-> <<>>,
           cart |-> InitCart,
           nextId |-> Cardinality(InitCart) + 1]
  /\ txs = [t \in Workers |-> EmptyTx]
  /\ pc = [t \in Workers |-> "idle"]
  /\ req = [t \in Workers |-> NoReq]
  /\ loc = [t \in Workers |-> NoLoc]
  /\ last = [op |-> "none", user_id |-> 0, item_id |-> 0,
             code |-> 0, at |-> "idle", body |-> NoBody, audit |-> <<>>]
  /\ ops = 0

Requests(t, seq) ==
  \/ \E role \in Roles, st \in Statuses \cup {""}, page \in Pages, limit \in Limits :
       HandleGetAll(t, role, st, page, limit, seq)
  \/ \E p \in ProductIDs : HandleGetByID(t, p, seq)
  \/ \E price \in PriceInputs, stock \in StockInputs : HandleCreate(t, price, stock, seq)
  \/ \E p \in ProductIDs, u \in UpdateInputs : HandleUpdate(t, p, u, seq)
  \/ \E p \in ProductIDs : HandleDelete(t, p, seq)
  \/ \E u \in Users, p \in ProductIDs, q \in QtyInputs : HandlePurchase(t, u, p, q, seq)
  \/ \E u \in Users : HandleGetCart(t, u, seq)
  \/ \E u \in Users, p \in ProductIDs, q \in QtyInputs : HandleAddToCart(t, u, p, q, seq)
  \/ \E u \in Users, id \in CartIDs, q \in QtyInputs : HandleUpdateCartItem(t, u, id, q, seq)
  \/ \E u \in Users, id \in CartIDs : HandleRemoveFromCart(t, u, id, seq)
  \/ \E u \in Users, ok \in BOOLEAN : HandleCheckout(t, u, ok, seq)

TxSteps(t) ==
  \/ TxDebit(t)
  \/ TxUpdateStock(t)
  \/ TxCreateTransaction(t)
  \/ TxClearCart(t)
  \/ TxCommit(t)
  \/ TxFail(t)

Steps(t) == AddToCartStep(t) \/ TxSteps(t)

\* requests handled concurrently, one per worker
Next == \E t \in Workers : Requests(t, FALSE) \/ Steps(t)
Spec == Init /\ [][Next]_vars

\* requests handled one after the other
NextSeq == \E t \in Workers : Requests(t, TRUE) \/ Steps(t)
SpecSeq == Init /\ [][NextSeq]_vars

\* ------------------------------------------------------- purchase / checkout
\* concurrent Purchase and Checkout requests only
ShopRequests(t) ==
  \/ \E u \in Users, p \in ProductIDs, q \in QtyInputs : HandlePurchase(t, u, p, q, FALSE)
  \/ \E u \in Users, ok \in BOOLEAN : HandleCheckout(t, u, ok, FALSE)

NextShop == \E t \in Workers : ShopRequests(t) \/ TxSteps(t)
SpecShop == Init /\ [][NextShop]_vars


\* worker t's transaction commits in this step and its request is answered 200
Commits(t) == pc[t] = "commit" /\ pc'[t] = "idle" /\ last'.code = StatusOK

RECURSIVE Sold(_, _)
Sold(rows, p) ==
  IF rows = <<>> THEN 0
  ELSE (IF Head(rows).product_id = p THEN Head(rows).quantity ELSE 0) + Sold(Tail(rows), p)

C2_AllOrNothing ==
  [][/\ (\E t \in Workers : Commits(t)) \/ db' = db
     /\ \A t \in Workers : pc'[t] = "idle" => txs'[t] = EmptyTx]_vars

\* a checkout with two lines failed at its last step (debit, both stock
\* updates, both ledger rows and the cart clear were pending) and the database
\* is as it was
C2_Witness ==
  /\ last.op = "checkout" /\ last.code = StatusBadRequest /\ last.at = "commit"
  /\ db.cart = InitCart /\ db.ledger = <<>> /\ db.products = InitProducts
  /\ \A u \in Users : db.wallet[u] = InitBalance

C4_PurchaseEffect ==
  [][\A t \in Workers :
       (Commits(t) /\ req[t].op = "purchase") =>
         LET u == req[t].user_id
             p == req[t].product_id
             q == req[t].quantity
             price == db.products[p].price
         IN (q <= db.products[p].stock /\ price * q <= db.wallet[u]) =>
              /\ db'.products[p].stock = db.products[p].stock - q
              /\ db'.wallet[u] = db.wallet[u] - price * q
              /\ db'.ledger = Append(db.ledger,
                                     [wallet_id |-> u, product_id |-> p,
                                      quantity |-> q, amount |-> price * q])]_vars

\* user 2 bought both units of product 1 (price 1): stock 0, balance down by 2
C4_Witness ==
  /\ last.op = "purchase" /\ last.code = StatusOK /\ last.user_id = 2
  /\ db.products[1].stock = 0
  /\ db.wallet[2] = InitBalance - 2
  /\ Len(db.ledger) = 1

\* C5: a successful Checkout debits the wallet exactly once, and the point
\* amounts of the ledger rows it creates add up to the decrease of the
\* caller's wallet balance.
C5_CheckoutLedgerSum ==
  [][\A t \in Workers :
       (Commits(t) /\ req[t].op = "checkout") =>
         LET u == req[t].user_id
             n == Len(db.ledger)
             new == SubSeq(db'.ledger, n + 1, Len(db'.ledger))
         IN /\ Len(db'.ledger) >= n
            /\ SubSeq(db'.ledger, 1, n) = db.ledger
            /\ \A k \in 1..Len(new) : new[k].wallet_id = u
            /\ SumAmount(new) = db.wallet[u] - db'.wallet[u]
            /\ txs[t].debits = 1]_vars

\* user 1 checked out the two-line cart: two ledger rows, 1 + 2 points
C5_Witness ==
  /\ last.op = "checkout" /\ last.code = StatusOK /\ last.user_id = 1
  /\ Len(db.ledger) = 2
  /\ db.wallet[1] = InitBalance - 3
  /\ GetCart(db, 1) = {}


\* ------------------------------------------------------------------- cart
CartRequests(t, seq) ==
  \/ \E u \in Users : HandleGetCart(t, u, seq)
  \/ \E u \in Users, p \in ProductIDs, q \in QtyInputs : HandleAddToCart(t, u, p, q, seq)
  \/ \E u \in Users, id \in CartIDs, q \in QtyInputs : HandleUpdateCartItem(t, u, id, q, seq)
  \/ \E u \in Users, id \in CartIDs : HandleRemoveFromCart(t, u, id, seq)
  \/ \E u \in Users, ok \in BOOLEAN : HandleCheckout(t, u, ok, seq)

\* concurrent cart requests (every handler that writes cart rows)
NextCart == \E t \in Workers : CartRequests(t, FALSE) \/ Steps(t)
SpecCart == Init /\ [][NextCart]_vars

\* the same requests, one after the other
NextCartSeq == \E t \in Workers : CartRequests(t, TRUE) \/ Steps(t)
SpecCartSeq == Init /\ [][NextCartSeq]_vars

\* concurrent AddToCart requests only
NextAdd ==
  \E t \in Workers :
    \/ \E u \in Users, p \in ProductIDs, q \in QtyInputs : HandleAddToCart(t, u, p, q, FALSE)
    \/ AddToCartStep(t)
SpecAdd == Init /\ [][NextAdd]_vars

Rows(d, u, p) == {r \in d.cart : r.user_id = u /\ r.product_id = p}

RECURSIVE SumQuantity(_)
SumQuantity(rows) ==
  IF rows = {} THEN 0
  ELSE LET r == CHOOSE x \in rows : TRUE
       IN r.quantity + SumQuantity(rows \ {r})

QtyOf(d, u, p) == SumQuantity(Rows(d, u, p))

\* worker t's AddToCart request is answered 200 in this step
AddSucceeds(t) == pc[t] = "add" /\ pc'[t] = "idle" /\ last'.code = StatusOK

\* C6: requests handled one after the other: an AddToCart of quantity q leaves
\* exactly one cart row for (user, product), whose quantity is the quantity
\* there was (0 without a row) plus q; so a series of AddToCart calls leaves
\* the sum of the added quantities.
C6_AddSumsQuantity ==
  [][\A t \in Workers :
       AddSucceeds(t) =>
         LET u == req[t].user_id
             p == req[t].product_id
         IN /\ Cardinality(Rows(db', u, p)) = 1
            /\ \A r \in Rows(db', u, p) :
                 r.quantity = QtyOf(db, u, p) + req[t].quantity]_vars

\* user 2, whose cart was empty, holds one row of more than MaxQty units: the
\* sum of two AddToCart calls
C6_Witness ==
  /\ last.op = "add" /\ last.code = StatusOK /\ last.user_id = 2
  /\ \E r \in db.cart : r.user_id = 2 /\ r.quantity > MaxQty
  /\ Cardinality(GetCart(db, 2)) = 1

\* C7: under every interleaving of concurrent AddToCart requests there is at
\* most one cart row per (user, product), and no added quantity is lost: each
\* AddToCart answered 200 raises the row's quantity by the quantity it added.
C7_ConcurrentAdds ==
  [][/\ \A u \in Users, p \in DOMAIN db'.products : Cardinality(Rows(db', u, p)) <= 1
     /\ \A t \in Workers :
          AddSucceeds(t) =>
            QtyOf(db', req[t].user_id, req[t].product_id)
              = QtyOf(db, req[t].user_id, req[t].product_id) + req[t].quantity]_vars

OthersRows(d, u) == {r \in d.cart : r.user_id # u}

\* a handler that answers in the step the request arrives
AnswersAtOnce(op) == ops' = ops + 1 /\ pc' = pc /\ last'.op = op

\* C9: cart operations are scoped to the caller: GetCart returns only the
\* caller's rows; UpdateCartItem and RemoveFromCart with any item id, and the
\* cart clear of a Checkout, leave every row of every other user unchanged.
C9_CartScoped ==
  [][/\ AnswersAtOnce("getcart") =>
          \A r \in last'.body.cart : r.user_id = last'.user_id
     /\ (AnswersAtOnce("updatecart") \/ AnswersAtOnce("removecart")) =>
          OthersRows(db', last'.user_id) = OthersRows(db, last'.user_id)
     /\ \A t \in Workers :
          (req[t].op = "checkout" /\ pc'[t] # pc[t]) =>
            /\ OthersRows(db', req[t].user_id) = OthersRows(db, req[t].user_id)
            /\ \A r \in db.cart : r.id \in txs'[t].cartDel => r.user_id = req[t].user_id]_vars

\* user 2 updated with the id of a row of user 1, was answered 200, and the
\* row of user 1 is as it was
C9_Witness ==
  /\ last.op = "updatecart" /\ last.code = StatusOK /\ last.user_id = 2
  /\ \E r \in db.cart : r.id = last.item_id /\ r.user_id = 1 /\ r \in InitCart


\* ---------------------------------------------------------------- catalog
\* concurrent requests of every handler that reads or writes product rows
CatalogRequests(t) ==
  \/ \E role \in Roles, st \in Statuses \cup {""}, page \in Pages, limit \in Limits :
       HandleGetAll(t, role, st, page, limit, FALSE)
  \/ \E p \in ProductIDs : HandleGetByID(t, p, FALSE)
  \/ \E price \in PriceInputs, stock \in StockInputs : HandleCreate(t, price, stock, FALSE)
  \/ \E p \in ProductIDs, u \in UpdateInputs : HandleUpdate(t, p, u, FALSE)
  \/ \E p \in ProductIDs : HandleDelete(t, p, FALSE)
  \/ \E u \in Users, p \in ProductIDs, q \in QtyInputs : HandlePurchase(t, u, p, q, FALSE)
  \/ \E u \in Users, ok \in BOOLEAN : HandleCheckout(t, u, ok, FALSE)

NextCatalog == \E t \in Workers : CatalogRequests(t) \/ TxSteps(t)
SpecCatalog == Init /\ [][NextCatalog]_vars

\* C10: Delete of an existing product sets its status to "inactive" and
\* changes nothing else; no step ever removes a product row, so FindByID keeps
\* returning it; an inactive product is in no listing filtered by
\* status = active; a Delete of an already inactive product changes nothing.
C10_SoftDelete ==
  [][/\ \A p \in DOMAIN db.products :
          /\ p \in DOMAIN db'.products
          /\ FindByID(db', p).err = ""
          /\ \A t \in Workers :
               HandleDelete(t, p, FALSE) =>
                 /\ db' = [db EXCEPT !.products[p].status = "inactive"]
                 /\ last'.code = StatusOK
                 /\ db.products[p].status = "inactive" => db' = db
     /\ \A p \in DOMAIN db'.products :
          db'.products[p].status = "inactive" =>
            \A page \in Pages, limit \in Limits, k \in 1..MaxProducts :
              LET items == GetAll(db', "active", page, limit).items
              IN k <= Len(items) => items[k] # p]_vars

\* product 1 was deleted and a later GetByID still returned it
C10_Witness ==
  /\ last.op = "getbyid" /\ last.code = StatusOK /\ last.body.product = 1
  /\ db.products[1] = [InitProducts[1] EXCEPT !.status = "inactive"]

\* ------------------------------------------------------------------ audit
\* concurrent requests to the five handlers that call the audit service
AuditRequests(t) ==
  \/ \E price \in PriceInputs, stock \in StockInputs : HandleCreate(t, price, stock, FALSE)
  \/ \E p \in ProductIDs, u \in UpdateInputs : HandleUpdate(t, p, u, FALSE)
  \/ \E p \in ProductIDs : HandleDelete(t, p, FALSE)
  \/ \E u \in Users, p \in ProductIDs, q \in QtyInputs : HandlePurchase(t, u, p, q, FALSE)
  \/ \E u \in Users, ok \in BOOLEAN : HandleCheckout(t, u, ok, FALSE)

NextAudit == \E t \in Workers : AuditRequests(t) \/ TxSteps(t)
SpecAudit == Init /\ [][NextAudit]_vars

\* a request is answered in this step
Answered ==
  \/ \E t \in Workers : pc[t] # "idle" /\ pc'[t] = "idle"
  \/ ops' = ops + 1 /\ pc' = pc

AuditedOps == {"create", "update", "delete", "purchase", "checkout"}

AuditAction(op) ==
  CASE op = "create" -> "CREATE_PRODUCT"
    [] op = "update" -> "UPDATE_PRODUCT"
    [] op = "delete" -> "DELETE_PRODUCT"
    [] op = "purchase" -> "PURCHASE_PRODUCT"
    [] op = "checkout" -> "CART_CHECKOUT"
    [] OTHER -> ""

SuccessCode(op) == IF op = "create" THEN StatusCreated ELSE StatusOK

\* C11: Create, Update, Delete, Purchase and Checkout emit an audit record
\* only with their success response: a request answered with an error status
\* (validation or service error) emits none, a request answered with success
\* emits exactly one, for its own action, and the status answered is the
\* success status of the operation whether or not the audit service stored
\* the record; a commit whose audit record was not stored is still applied.
C11_AuditAfterSuccess ==
  [][Answered =>
       /\ last'.op \in AuditedOps
       /\ last'.audit # <<>> => last'.code = SuccessCode(last'.op)
       /\ last'.code # SuccessCode(last'.op) => last'.audit = <<>>
       /\ last'.code = SuccessCode(last'.op) =>
            /\ Len(last'.audit) = 1
            /\ last'.audit[1].action = AuditAction(last'.op)
            /\ last'.audit[1].user_id = last'.user_id
       /\ \A t \in Workers :
            (pc[t] = "commit" /\ pc'[t] = "idle" /\ last'.audit # <<>>) =>
              db' = Commit(Store, t).db]_vars

\* a purchase was committed and answered 200 although its audit record was
\* not stored
C11_Witness ==
  /\ last.op = "purchase" /\ last.code = StatusOK
  /\ Len(last.audit) = 1 /\ ~last.audit[1].logged
  /\ Len(db.ledger) = 1

\* ----------------------------------------------------------------- errors
\* concurrent requests to the handlers that can fail, storage errors included
ErrRequests(t) ==
  \/ \E p \in ProductIDs : HandleGetByID(t, p, FALSE)
  \/ \E p \in ProductIDs : HandleGetByIDStorageError(t, p, FALSE)
  \/ \E p \in ProductIDs, u \in UpdateInputs : HandleUpdate(t, p, u, FALSE)
  \/ \E p \in ProductIDs : HandleDelete(t, p, FALSE)
  \/ \E u \in Users, p \in ProductIDs, q \in QtyInputs : HandlePurchase(t, u, p, q, FALSE)
  \/ \E u \in Users, ok \in BOOLEAN : HandleCheckout(t, u, ok, FALSE)
  \/ \E u \in Users, p \in ProductIDs, q \in QtyInputs : HandleAddToCart(t, u, p, q, FALSE)
  \/ \E u \in Users, id \in CartIDs, q \in QtyInputs : HandleUpdateCartItem(t, u, id, q, FALSE)
  \/ \E u \in Users, id \in CartIDs : HandleRemoveFromCart(t, u, id, FALSE)

NextErr == \E t \in Workers : ErrRequests(t) \/ Steps(t)
SpecErr == Init /\ [][NextErr]_vars

\* worker t answers a request whose input is malformed
ValidationFails(t) ==
  \/ \E u \in Users, p \in ProductIDs, q \in QtyInputs :
       /\ ~ValidQuantity(q)
       /\ HandlePurchase(t, u, p, q, FALSE) \/ HandleAddToCart(t, u, p, q, FALSE)
  \/ \E u \in Users, id \in CartIDs, q \in QtyInputs :
       ~ValidQuantity(q) /\ HandleUpdateCartItem(t, u, id, q, FALSE)
  \/ \E u \in Users : HandleCheckout(t, u, FALSE, FALSE)
  \/ \E p \in ProductIDs, u \in UpdateInputs :
       ~ValidProductFields([u EXCEPT !.product_id = p]) /\ HandleUpdate(t, p, u, FALSE)

\* worker t answers a well-formed request that names an unknown product id
UnknownProduct(t) ==
  \E p \in ProductIDs \ DOMAIN db.products :
    \/ HandleGetByID(t, p, FALSE)
    \/ HandleDelete(t, p, FALSE)
    \/ \E u \in UpdateInputs :
         ValidProductFields([u EXCEPT !.product_id = p]) /\ HandleUpdate(t, p, u, FALSE)
    \/ \E u \in Users, q \in QtyInputs :
         /\ ValidQuantity(q)
         /\ HandlePurchase(t, u, p, q, FALSE) \/ HandleAddToCart(t, u, p, q, FALSE)

\* worker t answers a well-formed request for known products that exceeds
\* the stock or the balance
BusinessRuleFails(t) ==
  \/ \E u \in Users, p \in DOMAIN db.products, q \in QtyInputs :
       /\ ValidQuantity(q) /\ q > db.products[p].stock
       /\ HandlePurchase(t, u, p, q, FALSE)
  \/ \E u \in Users :
       /\ LinesError(CartLines(db, GetCart(db, u))) # ""
       /\ HandleCheckout(t, u, TRUE, FALSE)
  \/ /\ pc[t] = "debit"
     /\ Debit(Store, t, req[t].user_id, loc[t].total).err # ""
     /\ TxDebit(t)

\* worker t answers a request that met a storage error: a statement of the
\* transaction failed although stock and balance sufficed, or the SELECT of
\* an existing product failed
StorageFails(t) ==
  \/ /\ TxFail(t)
     /\ ~(pc[t] = "debit" /\ Debit(Store, t, req[t].user_id, loc[t].total).err # "")
  \/ \E p \in DOMAIN db.products : HandleGetByIDStorageError(t, p, FALSE)

\* C12: every failed request is answered with the status of its error kind:
\* malformed input 400, unknown product id 404 (GetByID, Update, Delete,
\* Purchase, AddToCart), insufficient stock or balance 400, storage failure
\* 500 (Purchase, Checkout, GetByID).
C12_StatusByErrorKind ==
  [][\A t \in Workers :
       /\ ValidationFails(t) => last'.code = StatusBadRequest
       /\ UnknownProduct(t) => last'.code = StatusNotFound
       /\ BusinessRuleFails(t) => last'.code = StatusBadRequest
       /\ StorageFails(t) => last'.code = StatusInternalServerError]_vars
====
